---- MODULE Spec2Model ----
(***************************************************************************)
(* larkslim: the API client's access-token cache (package larkslim) and    *)
(* the webhook receiver's dispatch (package larkbot).                      *)
(*                                                                         *)
(* Part 1 models API.NewRequest / API.newRequest / API.getAccessToken /    *)
(* API.expired for a number of goroutines sharing one *API.  Time is an    *)
(* integer number of seconds.                                              *)
(* Part 2 models Server.handleLarkCards and Server.handleLarkEvents, one   *)
(* request per step, with the http.ResponseWriter as a value.              *)
(***************************************************************************)
EXTENDS Integers, Sequences, FiniteSets, TLC

(***************************************************************************)
(* Bounds of the model.                                                    *)
(***************************************************************************)
\* number of goroutines, each issuing one outbound call on the shared *API
NumCallers == 2
\* the clock advances at most this many seconds past its start
MaxTicks == 1
\* the length in bytes of the JSON documents that senders encrypt
DocLen == 10

(***************************************************************************)
(* Program constants.                                                      *)
(***************************************************************************)
\* data.Expire-30: the safety margin subtracted from the reported ttl
Margin == 30
\* the zero time.Time of a fresh API{}: earlier than every time.Now()
ZeroTime == 0
\* aes.BlockSize
BlockSize == 16

Callers == 1..NumCallers
NoOne == 0
\* ttl values ("expire") the token endpoint reports: below the margin, equal
\* to it, above it
TTLs == {Margin - 1, Margin, Margin + 1}
\* tenant_access_token values: the endpoint answers the k-th token request
\* with a token of its own
Token(k) == "t" \o ToString(k)
FetchedTokens == {Token(k) : k \in Callers}
\* what a racing, unsynchronised read of a Go string may yield
Torn == "torn"

VARIABLES
    accessToken,            \* api.accessToken
    accessTokenExpiredAt,   \* api.accessTokenExpiredAt
    mutex,                  \* api.mutex: NoOne or the goroutine holding it
    now,                    \* the wall clock, time.Now()
    pc,                     \* each goroutine's position in NewRequest
    pending,                \* the AccessTokenResponse a goroutine's fetch returned
    call,                   \* per call: what it observed and did
    fetchCount,             \* token-fetch network calls started so far
    srv,                    \* the Server value (configuration)
    last,                   \* the last inbound request and what serving it did
    fn,                     \* the library function being applied, its input and result
    loop,                   \* the goroutine running Server.updateAccessToken
    serve                   \* the goroutine running Server.Serve

apiVars == <<accessToken, accessTokenExpiredAt, mutex, now, pc, pending, call, fetchCount>>
srvVars == <<srv, last>>
auxVars == <<fn, loop, serve>>
vars == <<accessToken, accessTokenExpiredAt, mutex, now, pc, pending, call, fetchCount, srv, last,
          fn, loop, serve>>

\* no library function is being applied
NoRun == [op |-> "none", in |-> 0, out |-> 0]
\* Serve has not been called: no refresh goroutine exists
NoLoop == [pc |-> "off"]
\* the patterns Serve registers on its ServeMux
Routes == {"/cards/", "/events/", "/204/", "/"}
\* Serve has not been called
NotServing == [pc |-> "off", routes |-> {}, listening |-> FALSE]
\* Serve is inside server.ListenAndServe(), which accepts connections
Listening == [pc |-> "listening", routes |-> Routes, listening |-> TRUE]

(***************************************************************************)
(* Part 1: the access-token cache of one *API.                             *)
(***************************************************************************)
NoResponse == [ok |-> FALSE, tok |-> "", ttl |-> 0]
\* what the token endpoint may answer: a failure (transport error, bad JSON,
\* msg other than ok/success) or a token with its ttl
Responses == {NoResponse} \cup [ok : {TRUE}, tok : {Token(fetchCount)}, ttl : TTLs]

NewCall == [how        |-> "none",   \* how getAccessToken ended for this call
            issuedValid |-> FALSE,   \* the cache was unexpired when the call was issued
            tokAtIssue |-> "",       \* api.accessToken when the call was issued
            fresh      |-> FALSE,    \* ... and has stayed unexpired since
            disturbed  |-> FALSE,    \* a token fetch started while the call was under way
            early      |-> FALSE,    \* the call was issued before any token fetch started
            sawValid   |-> FALSE,    \* the cache was unexpired at the check under the lock
            attached   |-> "",       \* the token put in the Authorization header
            inMargin   |-> FALSE,    \* now < accessTokenExpiredAt when it was attached
            result     |-> "none"]   \* "error" (returned to the caller) or "sent"

\* goroutines between the start of NewRequest and the Authorization header
UnderWay(c) == pc[c] \in {"lock", "check", "inflight", "storing", "attach"}

\* expired with the comparison turned around
expired_Inverted == now < accessTokenExpiredAt
\* expired answering true at every check: each call asks for a new token
expired_Always == TRUE
\* expired answering false at every check: the cache is never refreshed
expired_Never == FALSE
\* API.expired: accessTokenExpiredAt.Before(time.Now())
expired == accessTokenExpiredAt < now

\* a Lock() that never blocks
MutexFree_NoLock == TRUE
\* api.mutex.Lock() returns only when no goroutine holds the mutex
MutexFree == mutex = NoOne

\* time.Now().Add(time.Duration(data.Expire-30) * time.Second)
newExpiredAt(ttl) == now + (ttl - Margin)

\* the path of the token endpoint
getAccessTokenPath == "/auth/v3/tenant_access_token/internal"

\* a newRequest that asks for a token whatever the path
needsToken_Always(path) == TRUE
\* newRequest: if path != getAccessToken { err = api.getAccessToken() ... }
needsToken(path) == path # getAccessTokenPath

\* newRequest with the error of getAccessToken dropped
afterGetAccessToken_Ignore(err) == "attach"
\* newRequest: err = api.getAccessToken(); if err != nil { return }
afterGetAccessToken(err) == IF err THEN "done" ELSE "attach"

\* the unsynchronised read of api.accessToken in newRequest: while another
\* goroutine is assigning the field the read may see the old string, the new
\* one, or a mix of the two
ReadAccessToken(c) ==
    {accessToken} \cup
    UNION {{pending[w].tok, Torn} : w \in {x \in Callers \ {c} : pc[x] = "storing"}}

InitAPI ==
    /\ accessToken = ""
    /\ accessTokenExpiredAt = ZeroTime
    /\ mutex = NoOne
    /\ now = ZeroTime + 1
    /\ pc = [c \in Callers |-> "idle"]
    /\ pending = [c \in Callers |-> NoResponse]
    /\ call = [c \in Callers |-> NewCall]
    /\ fetchCount = 0

\* NewRequest -> newRequest up to http.NewRequest: the body is marshalled and
\* the request built; either may fail, and then nothing else happens
Call(c) ==
    /\ pc[c] = "idle"
    /\ \E built \in BOOLEAN :
         IF built
         THEN /\ pc' = [pc EXCEPT ![c] = "lock"]
              /\ call' = [call EXCEPT ![c].issuedValid = (now <= accessTokenExpiredAt),
                                      ![c].fresh = (now <= accessTokenExpiredAt),
                                      ![c].early = (fetchCount = 0),
                                      ![c].tokAtIssue = accessToken]
         ELSE /\ pc' = [pc EXCEPT ![c] = "done"]
              /\ call' = [call EXCEPT ![c].how = "builderr", ![c].result = "error"]
    /\ UNCHANGED <<accessToken, accessTokenExpiredAt, mutex, now, pending, fetchCount, srvVars, auxVars>>

\* getAccessToken: api.mutex.Lock(), by a call ("lock") or by the token
\* request of a goroutine that is inside getAccessToken ("relock"); the mutex
\* is not reentrant
Lock(c) ==
    /\ pc[c] \in {"lock", "relock"}
    /\ MutexFree
    /\ mutex' = c
    /\ pc' = [pc EXCEPT ![c] = "check"]
    /\ UNCHANGED <<accessToken, accessTokenExpiredAt, now, pending, call, fetchCount, srvVars, auxVars>>

\* getAccessToken: if !api.expired() { return nil } (the deferred Unlock runs),
\* otherwise api.NewRequest("POST", getAccessToken, ...): newRequest builds the
\* token request, for that path without a call of getAccessToken, and do sends
\* it
CheckExpired(c) ==
    /\ pc[c] = "check"
    /\ IF ~expired
       THEN /\ pc' = [pc EXCEPT ![c] = afterGetAccessToken(FALSE)]
            /\ mutex' = NoOne
            /\ call' = [call EXCEPT ![c].how = "cached",
                                    ![c].sawValid = (now <= accessTokenExpiredAt)]
            /\ UNCHANGED fetchCount
       ELSE /\ pc' = [pc EXCEPT ![c] = IF needsToken(getAccessTokenPath)
                                        THEN "relock" ELSE "inflight"]
            /\ fetchCount' = fetchCount + 1
            /\ call' = [d \in Callers |->
                          IF d = c
                          THEN [call[d] EXCEPT !.sawValid = (now <= accessTokenExpiredAt)]
                          ELSE IF UnderWay(d)
                               THEN [call[d] EXCEPT !.disturbed = TRUE]
                               ELSE call[d]]
            /\ UNCHANGED mutex
    /\ UNCHANGED <<accessToken, accessTokenExpiredAt, now, pending, srvVars, auxVars>>

\* getAccessToken: api.NewRequest("POST", getAccessToken, ...) returns
FetchReturn(c) ==
    /\ pc[c] = "inflight"
    /\ \E r \in Responses :
         IF r.ok
         THEN /\ pending' = [pending EXCEPT ![c] = r]
              /\ pc' = [pc EXCEPT ![c] = "storing"]
              /\ UNCHANGED <<mutex, call>>
         ELSE /\ mutex' = NoOne
              /\ pc' = [pc EXCEPT ![c] = afterGetAccessToken(TRUE)]
              /\ call' = [call EXCEPT ![c].how = "failed",
                                      ![c].result = IF afterGetAccessToken(TRUE) = "done"
                                                    THEN "error" ELSE "none"]
              /\ UNCHANGED pending
    /\ UNCHANGED <<accessToken, accessTokenExpiredAt, now, fetchCount, srvVars, auxVars>>

\* getAccessToken: api.accessToken = data.Token; api.accessTokenExpiredAt = ...;
\* return (the deferred Unlock runs)
StoreEnd(c) ==
    /\ pc[c] = "storing"
    /\ accessToken' = pending[c].tok
    /\ accessTokenExpiredAt' = newExpiredAt(pending[c].ttl)
    /\ mutex' = NoOne
    /\ pending' = [pending EXCEPT ![c] = NoResponse]
    /\ pc' = [pc EXCEPT ![c] = afterGetAccessToken(FALSE)]
    /\ call' = [call EXCEPT ![c].how = "fetched"]
    /\ UNCHANGED <<now, fetchCount, srvVars, auxVars>>

\* newRequest: req.Header.Set("Authorization", "Bearer "+api.accessToken)
Attach(c) ==
    /\ pc[c] = "attach"
    /\ \E v \in ReadAccessToken(c) :
         call' = [call EXCEPT ![c].attached = v,
                              ![c].inMargin = (now < accessTokenExpiredAt)]
    /\ pc' = [pc EXCEPT ![c] = "do"]
    /\ UNCHANGED <<accessToken, accessTokenExpiredAt, mutex, now, pending, fetchCount, srvVars, auxVars>>

\* NewRequest: return api.do(req, respData): the request goes out
Do(c) ==
    /\ pc[c] = "do"
    /\ pc' = [pc EXCEPT ![c] = "done"]
    /\ call' = [call EXCEPT ![c].result = "sent"]
    /\ UNCHANGED <<accessToken, accessTokenExpiredAt, mutex, now, pending, fetchCount, srvVars, auxVars>>

\* a second passes
Tick ==
    /\ now < ZeroTime + 1 + MaxTicks
    /\ now' = now + 1
    /\ call' = [c \in Callers |->
                  IF pc[c] \in {"lock", "check", "attach"}
                  THEN [call[c] EXCEPT !.fresh = @ /\ (now' <= accessTokenExpiredAt)]
                  ELSE call[c]]
    /\ UNCHANGED <<accessToken, accessTokenExpiredAt, mutex, pc, pending, fetchCount, srvVars, auxVars>>

NextAPI ==
    \/ \E c \in Callers : Call(c)
    \/ \E c \in Callers : Lock(c)
    \/ \E c \in Callers : CheckExpired(c)
    \/ \E c \in Callers : FetchReturn(c)
    \/ \E c \in Callers : StoreEnd(c)
    \/ \E c \in Callers : Attach(c)
    \/ \E c \in Callers : Do(c)
    \/ Tick

(***************************************************************************)
(* Part 2: the webhook receiver.  JSON values are tagged: a key that is    *)
(* absent, a string, a number, an object.                                  *)
(***************************************************************************)
Absent == <<"absent">>
Str(x) == <<"str", x>>
Num(x) == <<"num", x>>
Obj(x) == <<"obj", x>>
Null == <<"null">>

\* values of the envelope's keys that requests carry
TypeVals == {Absent, Str("url_verification"), Str("event_callback"), Str("interactive"), Num("1")}
TokenVals == {Absent, Str("vt"), Str("xx"), Num("1")}
ChallengeVals == {Absent, Str("abc"), Num("7")}
ActionVals == {Absent, Obj("act")}
EventVals == {Absent, Obj("ev")}
\* values of the X-Lark-Request-Timestamp and X-Lark-Request-Nonce headers
Hdrs == {"", "a"}
\* tokens a sender may sign with
SignTokens == {"vt", "xx"}
\* keys a sender may encrypt with
SenderKeys == {"k", "other"}
\* lengths in bytes of the base64-decoded "encrypt" value
RawLens == {0, BlockSize \div 2, BlockSize, BlockSize + BlockSize \div 2, 2 * BlockSize, 3 * BlockSize}
\* last bytes of the decrypted buffer: the PKCS#7 pad of a DocLen-byte document
\* in one block and in two, and bytes that are no pad
LastBytes == {0, BlockSize - DocLen, 2 * BlockSize - DocLen, BlockSize + 1, 255}

\* a request body that is no JSON document
Malformed == [json |-> "malformed", type |-> Absent, token |-> Absent,
              challenge |-> Absent, action |-> Absent, event |-> Absent]
\* JSON objects posted to the card endpoint
CardBodies ==
    {Malformed} \cup
    [json : {"object"}, type : TypeVals, token : {Absent}, challenge : ChallengeVals,
     action : ActionVals, event : {Absent}]
\* JSON objects posted (in clear or encrypted) to the event endpoint
EventDocs ==
    {Malformed} \cup
    [json : {"object"}, type : TypeVals, token : TokenVals, challenge : ChallengeVals,
     action : {Absent}, event : EventVals]

\* sha1 of the bytes prefix ++ body, hex-encoded: an injective stand-in, so two
\* digests agree exactly when the hashed bytes agree
Sha1Hex(prefix, body) == <<"sha1", prefix, body>>
NoSignature == <<"sha1", "", Malformed>>

\* the Server values under study
Servers ==
    [EventVerificationToken : {"", "vt"},
     EventEncrytionKey : {"", "k"},
     CardCallbackHandler : BOOLEAN,       \* TRUE: a handler is registered (non-nil)
     EventCallbackHandler : BOOLEAN,
     GetAccessToken : {FALSE},            \* not read by the handlers
     Logger : {TRUE}]                     \* the handlers only log with it

\* the http.ResponseWriter of one request: status 0 = header not yet written
NewWriter == [status |-> 0, ctype |-> "", body |-> Absent]
Start == [w |-> NewWriter, trace |-> <<>>]

\* w.WriteHeader(code): only the first call on a response counts
WriteHeader(st, code) ==
    [w |-> IF st.w.status = 0 THEN [st.w EXCEPT !.status = code] ELSE st.w,
     trace |-> Append(st.trace, [op |-> "WriteHeader", arg |-> code])]

\* w.Header().Set("Content-Type", v): no effect once the header is written
SetContentType(st, v) ==
    [st EXCEPT !.w.ctype = IF st.w.status = 0 THEN v ELSE @]

\* fmt.Fprint(w, data): writes the header with 200 if none was written; a 204
\* response takes no body
Fprint(st, data) ==
    LET status == IF st.w.status = 0 THEN 200 ELSE st.w.status
    IN  [w |-> [st.w EXCEPT !.status = status,
                            !.body = IF status = 204 THEN @ ELSE data],
         trace |-> Append(st.trace, [op |-> "Fprint", arg |-> data])]

\* returnError: the error is logged and w.WriteHeader(http.StatusNoContent)
returnError(st) == WriteHeader(st, 204)

\* a callback is invoked; a card handler is handed w and may answer itself
Invoke(st, name, arg, answers) ==
    LET called == [st EXCEPT !.trace = Append(@, [op |-> name, arg |-> arg])]
    IN  IF answers THEN Fprint(called, Str("handler")) ELSE called

\* json.Marshal(map[string]interface{}{"challenge": v}): a missing key is nil
ChallengeJSON(v) == [challenge |-> IF v = Absent THEN Null ELSE v]

\* handleLarkCards: the signature recomputed from the headers, the configured
\* token and the body differs from X-Lark-Signature
wrongSignature(s, r) ==
    r.sig # Sha1Hex(r.ts \o r.nonce \o s.EventVerificationToken, r.body)

\* handleLarkCards without its goto end: any type other than url_verification
\* falls through to the action
cardTypeBranch_FallThrough(body) ==
    IF body.type = Str("url_verification") THEN "verify" ELSE "action"
\* handleLarkCards: if v, ok := resp["type"]; ok { ... goto end ... }
cardTypeBranch(body) ==
    IF body.type = Absent THEN "action"
    ELSE IF body.type[1] # "str" THEN "end"
    ELSE IF body.type # Str("url_verification") THEN "end"
    ELSE "verify"

\* an echo that carries the type instead of the challenge
cardChallenge_Type(body) == body.type
\* handleLarkCards: resp["challenge"]
cardChallenge(body) == body.challenge

\* handleLarkCards from json.Unmarshal on
cardsDispatch(s, r, st) ==
    IF r.body.json = "malformed" THEN returnError(st)
    ELSE CASE cardTypeBranch(r.body) = "verify" ->
                Fprint(SetContentType(st, "application/json"),
                       ChallengeJSON(cardChallenge(r.body)))
           [] cardTypeBranch(r.body) = "end" -> WriteHeader(st, 200)
           [] OTHER ->
                IF r.body.action # Absent /\ s.CardCallbackHandler
                THEN Invoke(st, "CardCallbackHandler", r.body.action, r.answers)
                ELSE WriteHeader(st, 200)

\* handleLarkCards
handleLarkCards(s, r) ==
    IF r.readErr THEN returnError(Start)
    ELSE IF s.EventVerificationToken # "" /\ wrongSignature(s, r)
         THEN cardsDispatch(s, r, returnError(Start))   \* no return after returnError
         ELSE cardsDispatch(s, r, Start)

\* prefixes timestamp ++ nonce ++ token a sender may have signed
SignedPrefixes == {t \o n \o k : t \in Hdrs, n \in Hdrs, k \in SignTokens}

ReadErrorBody == [kind |-> "plain", doc |-> Malformed, b64ok |-> TRUE, key |-> "",
                  rawLen |-> 0, lastByte |-> 0]

\* requests to /cards/: readErr = ioutil.ReadAll failed; answers = the card
\* handler, if invoked, writes a response of its own
CardRequests ==
    {[readErr |-> TRUE, ts |-> "", nonce |-> "", body |-> Malformed,
      sig |-> NoSignature, answers |-> FALSE]} \cup
    UNION {[readErr : {FALSE}, ts : Hdrs, nonce : Hdrs, body : {b},
            sig : {NoSignature} \cup {Sha1Hex(p, b) : p \in SignedPrefixes},
            answers : BOOLEAN] : b \in CardBodies}

\* the bytes of the body of a request to /events/: a JSON document in clear
\* (kind "plain"), or {"encrypt": x} (kind "encrypted") where x is, when b64ok,
\* the base64 of rawLen bytes: a 16-byte IV, then bytes that AES-CBC under
\* `key` turns into a buffer ending in lastByte whose first DocLen bytes are doc
EventBodies ==
    [kind : {"plain"}, doc : EventDocs, b64ok : {TRUE}, key : {""}, rawLen : {0},
     lastByte : {0}] \cup
    [kind : {"encrypted"}, doc : EventDocs, b64ok : {FALSE}, key : {"k"}, rawLen : {0},
     lastByte : {0}] \cup
    [kind : {"encrypted"}, doc : EventDocs, b64ok : {TRUE}, key : SenderKeys,
     rawLen : RawLens, lastByte : LastBytes]

EventRequests ==
    {[readErr |-> TRUE, body |-> ReadErrorBody]} \cup
    [readErr : {FALSE}, body : EventBodies]

\* net/http recovers a panicking handler: nothing is written, the connection
\* is dropped and the server keeps serving
Panic(st) == [st EXCEPT !.trace = Append(@, [op |-> "panic", arg |-> 0])]

\* json.Unmarshal(body, &resp) with resp map[string]string: every value of the
\* object must be a string (or null)
allStrings(body) ==
    /\ body.doc.json = "object"
    /\ \A v \in {body.doc.type, body.doc.token, body.doc.challenge, body.doc.event} :
         v[1] \in {"absent", "str", "null"}

\* handleLarkEvents, the block under if h.EventEncrytionKey != "": the
\* outcome and, when it is "ok", the document the unpadded buffer holds
decrypt(s, body) ==
    LET n == body.rawLen - BlockSize       \* len(cipherText) after the IV is cut off
    IN  CASE body.kind = "plain" /\ ~allStrings(body) -> [outcome |-> "error", doc |-> Malformed]
          [] body.kind = "plain" -> [outcome |-> "panic", doc |-> Malformed]  \* resp["encrypt"] = "": cipherText[:16] of no bytes
          [] ~body.b64ok -> [outcome |-> "error", doc |-> Malformed]
          [] body.rawLen < BlockSize -> [outcome |-> "panic", doc |-> Malformed]  \* cipherText[:aes.BlockSize]
          [] n % BlockSize # 0 -> [outcome |-> "panic", doc |-> Malformed]        \* CryptBlocks: input not full blocks
          [] n = 0 -> [outcome |-> "panic", doc |-> Malformed]                    \* cipherText[len(cipherText)-1]
          [] n - body.lastByte < 0 -> [outcome |-> "panic", doc |-> Malformed]    \* cipherText[:bufLen], bufLen < 0
          [] OTHER ->
               [outcome |-> "ok",
                doc |-> IF body.key = s.EventEncrytionKey /\ n - body.lastByte = DocLen
                        THEN body.doc ELSE Malformed]

\* the JSON document json.Unmarshal(body, &resp) sees when no key is configured:
\* the envelope {"encrypt": ...} is an object with none of the known keys
clearDoc(body) ==
    IF body.kind = "plain" THEN body.doc
    ELSE [json |-> "object", type |-> Absent, token |-> Absent, challenge |-> Absent,
          action |-> Absent, event |-> Absent]

\* a string field of larkslim.EventResponse after json.Unmarshal
goString(v) == IF v[1] = "str" THEN v[2] ELSE ""

\* json.Unmarshal(body, &resp) with resp larkslim.EventResponse fails
decodeFails(doc) ==
    \/ doc.json = "malformed"
    \/ \E v \in {doc.type, doc.token, doc.challenge} : v[1] \notin {"absent", "str", "null"}
    \/ doc.event[1] \notin {"absent", "obj", "null"}

\* the larkslim.EventResponse json.Unmarshal fills in
decodeEvent(doc) ==
    [Type |-> goString(doc.type), Token |-> goString(doc.token),
     Challenge |-> goString(doc.challenge), Event |-> doc.event]

\* a token check that compares only a token that is present
wrongVerificationToken_IfPresent(s, resp) ==
    s.EventVerificationToken # "" /\ resp.Token # "" /\ s.EventVerificationToken # resp.Token
\* handleLarkEvents: h.EventVerificationToken != "" && h.EventVerificationToken != resp.Token
wrongVerificationToken(s, resp) ==
    s.EventVerificationToken # "" /\ s.EventVerificationToken # resp.Token

\* handleLarkEvents: map[string]string{"challenge": resp.Challenge}
eventChallenge(resp) == Str(resp.Challenge)

\* handleLarkEvents answering before the handler runs
eventsSwitch_RespondFirst(s, resp, st) ==
    IF resp.Type = "event_callback" /\ s.EventCallbackHandler
    THEN Invoke(WriteHeader(st, 204), "EventCallbackHandler", resp, FALSE)
    ELSE WriteHeader(st, 204)
\* handleLarkEvents: switch resp.Type { ... } w.WriteHeader(http.StatusNoContent)
eventsSwitch(s, resp, st) ==
    CASE resp.Type = "url_verification" ->
           Fprint(SetContentType(st, "application/json"), ChallengeJSON(eventChallenge(resp)))
      [] resp.Type = "event_callback" ->
           WriteHeader(IF s.EventCallbackHandler
                       THEN Invoke(st, "EventCallbackHandler", resp, FALSE)
                       ELSE st, 204)
      [] OTHER -> WriteHeader(st, 204)

\* handleLarkEvents from json.Unmarshal(body, &resp) on
eventsDispatch(s, doc, st) ==
    IF decodeFails(doc) THEN returnError(st)
    ELSE IF wrongVerificationToken(s, decodeEvent(doc)) THEN returnError(st)
    ELSE eventsSwitch(s, decodeEvent(doc), st)

\* handleLarkEvents
handleLarkEvents(s, r) ==
    IF r.readErr THEN returnError(Start)
    ELSE IF s.EventEncrytionKey # ""
         THEN CASE decrypt(s, r.body).outcome = "error" -> returnError(Start)
                [] decrypt(s, r.body).outcome = "panic" -> Panic(Start)
                [] OTHER -> eventsDispatch(s, decrypt(s, r.body).doc, Start)
         ELSE eventsDispatch(s, clearDoc(r.body), Start)

\* the methods of inbound requests: the one the platform uses and another
Methods == {"POST", "GET"}
\* paths outside /cards/ and /events/
OtherPaths == {"/204/", "/", "/favicon.ico"}

\* handle204
handle204(st) == WriteHeader(st, 204)
\* handle404: http.NotFound(w, r)
handle404(st) == Fprint(WriteHeader(SetContentType(st, "text/plain; charset=utf-8"), 404),
                        Str("404 page not found"))
\* the patterns registered on the ServeMux in Serve carry no method: a path is
\* all that selects the handler
route(path) == IF path = "/204/" THEN handle204(Start) ELSE handle404(Start)

NoRequest == [endpoint |-> "none", method |-> "", req |-> 0, w |-> NewWriter, trace |-> <<>>]

\* a Server as configured by its owner, no request served yet; the API part
\* stays as constructed
InitServer ==
    /\ InitAPI
    /\ srv \in Servers
    /\ last = NoRequest
    /\ fn = NoRun
    /\ loop = NoLoop
    /\ serve = Listening

\* a request to /cards/ is served
ServeCards ==
    /\ last.endpoint = "none"
    /\ \E m \in Methods, r \in CardRequests :
         last' = [endpoint |-> "cards", method |-> m, req |-> r,
                  w |-> handleLarkCards(srv, r).w, trace |-> handleLarkCards(srv, r).trace]
    /\ UNCHANGED <<srv, apiVars, auxVars>>

\* a request to /events/ is served
ServeEvents ==
    /\ last.endpoint = "none"
    /\ \E m \in Methods, r \in EventRequests :
         last' = [endpoint |-> "events", method |-> m, req |-> r,
                  w |-> handleLarkEvents(srv, r).w, trace |-> handleLarkEvents(srv, r).trace]
    /\ UNCHANGED <<srv, apiVars, auxVars>>

\* a request to any other path is served
ServeOther ==
    /\ last.endpoint = "none"
    /\ \E m \in Methods, p \in OtherPaths :
         last' = [endpoint |-> "other", method |-> m, req |-> [readErr |-> FALSE, path |-> p],
                  w |-> route(p).w, trace |-> route(p).trace]
    /\ UNCHANGED <<srv, apiVars, auxVars>>

\* the handler has returned and the response is on the wire: no state is kept
\* from one request to the next
Finish ==
    /\ last.endpoint # "none"
    /\ last' = NoRequest
    /\ UNCHANGED <<srv, apiVars, auxVars>>

NextServer == ServeCards \/ ServeEvents \/ ServeOther \/ Finish

(***************************************************************************)
(* The specifications.                                                     *)
(***************************************************************************)
\* goroutines calling NewRequest on one *API
Init == InitAPI /\ srv = [EventVerificationToken |-> "", EventEncrytionKey |-> "",
                          CardCallbackHandler |-> FALSE, EventCallbackHandler |-> FALSE,
                          GetAccessToken |-> FALSE, Logger |-> TRUE]
                /\ last = NoRequest
                /\ fn = NoRun
                /\ loop = NoLoop
                /\ serve = NotServing
Next == NextAPI
Spec == Init /\ [][Next]_vars

\* a Server answering requests
SpecServer == InitServer /\ [][NextServer]_vars

(***************************************************************************)
(* Claims about the access-token cache (checked under Spec).               *)
(***************************************************************************)
Fetching(c) == pc[c] \in {"inflight", "storing"}
Fetched(c) == Fetching(c) \/ call[c].how \in {"fetched", "failed"}
Built(c) == pc[c] \in {"do", "done"} /\ call[c].how \in {"cached", "fetched", "failed"}
        /\ (pc[c] = "done" => call[c].result = "sent")
\* every call has returned, and each was issued before the first token fetch
\* started, that is while the cache was still absent
AllIssuedWhileAbsent ==
    \A c \in Callers : pc[c] = "done" /\ call[c].early /\ ~call[c].issuedValid

\* C1 as stated: N calls issued concurrently while the cached token is expired
\* or absent cause exactly one token fetch, and all N observe its result: all
\* are sent with the new token, or all return the error.
C1_OneFetchUniformResult ==
    AllIssuedWhileAbsent =>
        /\ fetchCount = 1
        /\ \/ \A c \in Callers : call[c].result = "sent" /\ call[c].attached = accessToken
           \/ \A c \in Callers : call[c].result = "error"

\* C1 amended: fetches are made one by each call that still finds the cache
\* expired when it holds the lock, and by no other call; a call returns a fetch
\* error exactly when its own fetch failed (a failure is not handed to the
\* waiters, the next of which fetches again); and when only one of N calls
\* issued while the cache was absent had to fetch and its fetch succeeded,
\* exactly one fetch occurred and all N were sent with that token.
C1_FetchPerExpiredCheck ==
    /\ \A c \in Callers : Fetched(c) => ~call[c].sawValid
    /\ \A c \in Callers : call[c].how = "cached" => call[c].sawValid
    /\ fetchCount = Cardinality({c \in Callers : Fetched(c)})
    /\ \A c \in Callers :
         pc[c] = "done" => (call[c].result = "error" <=> call[c].how \in {"failed", "builderr"})
    /\ (/\ AllIssuedWhileAbsent
        /\ Cardinality({c \in Callers : call[c].how = "fetched"}) = 1
        /\ \A c \in Callers : call[c].how \in {"fetched", "cached"})
       => /\ fetchCount = 1
          /\ \A c \in Callers : call[c].result = "sent" /\ call[c].attached = accessToken

\* C1's case: all calls were issued while the cache was absent, one fetched
\* and the others, having waited for the lock, used its token
C1_Witness ==
    /\ AllIssuedWhileAbsent
    /\ \E c \in Callers :
         /\ call[c].how = "fetched"
         /\ \A d \in Callers \ {c} : call[d].how = "cached" /\ call[d].disturbed
    /\ fetchCount = 1

\* C2: at most one token-fetch network call is in flight at any time.
C2_AtMostOneFetchInFlight ==
    Cardinality({c \in Callers : pc[c] = "inflight"}) <= 1

\* C2's case: one call's fetch is in flight while another call waits for the mutex
C2_Witness ==
    \E c, d \in Callers : pc[c] = "inflight" /\ pc[d] = "lock" /\ mutex = c

C4_AttachedWithinMargin ==
    \A c \in Callers : Built(c) => call[c].inMargin /\ call[c].attached # ""

\* C4 amended: every request is built only after getAccessToken returned nil in
\* the same call: the cache was not expired under the margin at the check made
\* under the lock (now <= expiry - 30s), or the call had itself just fetched a
\* token; in both cases some fetch has succeeded, so the token is never the
\* initial empty one.  (Nothing is re-checked when the token is attached.)
C4_AttachedAfterCheckOrFetch ==
    \A c \in Callers :
        (pc[c] \in {"attach", "do"} \/ call[c].result = "sent") =>
            /\ \/ call[c].how = "cached" /\ call[c].sawValid
               \/ call[c].how = "fetched"
            /\ accessToken # ""
            /\ pc[c] # "attach" => call[c].attached # ""

\* C4's case: a token reported with ttl <= 30 was fetched and attached, already
\* at or past the margin
C4_Witness ==
    \E c \in Callers :
        /\ call[c].result = "sent" /\ call[c].how = "fetched"
        /\ ~call[c].inMargin /\ call[c].attached \in FetchedTokens

\* C5: a call whose token fetch failed returns the error and its request is
\* never built or sent; and no call is sent unless getAccessToken succeeded
\* for it, a token having been stored in the cache by then.
C5_FailClosed ==
    \A c \in Callers :
        /\ call[c].how = "failed" =>
             pc[c] = "done" /\ call[c].result = "error" /\ call[c].attached = ""
        /\ call[c].result = "sent" =>
             call[c].how \in {"cached", "fetched"} /\ accessToken \in FetchedTokens

\* C5's case: the cache was absent, the fetch failed and the call returned
C5_Witness ==
    \E c \in Callers :
        /\ call[c].how = "failed" /\ pc[c] = "done" /\ ~call[c].issuedValid
        /\ accessToken = ""

(***************************************************************************)
(* Claims about the webhook receiver (checked under SpecServer).           *)
(***************************************************************************)
\* the positions in the last request's trace at which `name` was called
Calls(name) == {i \in DOMAIN last.trace : last.trace[i].op = name}
NoHandlerInvoked == Calls("CardCallbackHandler") = {} /\ Calls("EventCallbackHandler") = {}
OnCards == last.endpoint = "cards" /\ ~last.req.readErr
OnEvents == last.endpoint = "events" /\ ~last.req.readErr
\* the card request passes the signature check, or none is configured
CardSigned ==
    \/ srv.EventVerificationToken = ""
    \/ last.req.sig = <<"sha1", last.req.ts \o last.req.nonce \o srv.EventVerificationToken,
                        last.req.body>>
\* the body of the event request reaches json.Unmarshal(body, &resp): it was
\* sent in clear to a server without key, or decrypts under the server's key
EventReadable ==
    IF srv.EventEncrytionKey = "" THEN TRUE
    ELSE decrypt(srv, last.req.body).outcome = "ok"
\* ... and this is the JSON document found there
Envelope ==
    IF srv.EventEncrytionKey = "" THEN clearDoc(last.req.body)
    ELSE decrypt(srv, last.req.body).doc
\* the envelope decodes into larkslim.EventResponse
EventDecodes ==
    /\ Envelope.json = "object"
    /\ \A v \in {Envelope.type, Envelope.token, Envelope.challenge} : v[1] \in {"absent", "str"}
\* the envelope carries the configured verification token, or none is configured
EventTokenOK ==
    srv.EventVerificationToken = "" \/ Envelope.token = Str(srv.EventVerificationToken)

\* C6: with a verification token configured, an event request whose decoded
\* envelope carries another token, or none, never reaches the event handler
\* and is answered 204 with no body.
C6_TokenMismatchRejected ==
    (/\ OnEvents /\ EventReadable /\ Envelope.json = "object"
     /\ srv.EventVerificationToken # ""
     /\ Envelope.token # Str(srv.EventVerificationToken))
    => /\ NoHandlerInvoked
       /\ last.w.status = 204 /\ last.w.body = Absent

\* C6's case: an event_callback with a wrong token, or with none, arrives at a
\* server that has a handler registered
C6_Witness ==
    /\ OnEvents /\ EventReadable /\ EventDecodes
    /\ srv.EventVerificationToken # "" /\ srv.EventCallbackHandler
    /\ Envelope.type = Str("event_callback")
    /\ Envelope.token = Absent
    /\ last.w.status = 204

\* C7 as stated: with a verification token configured, a card request whose
\* X-Lark-Signature differs from the recomputed digest is answered 204, the
\* card handler is not invoked and no challenge is sent back.
C7_WrongSignatureRejected ==
    (OnCards /\ ~CardSigned)
    => /\ last.w.status = 204
       /\ last.w.body = Absent
       /\ Calls("CardCallbackHandler") = {}

\* C8 as stated: an accepted card body that is no url_verification challenge
\* gets the handler invoked exactly once with the raw action value when it has
\* an action field and a handler is registered, whatever its type field; and
\* otherwise 200 with an empty body.
C8_ActionAlwaysDispatched ==
    (/\ OnCards /\ CardSigned /\ last.req.body.json = "object"
     /\ last.req.body.type # Str("url_verification"))
    => IF last.req.body.action # Absent /\ srv.CardCallbackHandler
       THEN /\ Cardinality(Calls("CardCallbackHandler")) = 1
            /\ \A i \in Calls("CardCallbackHandler") : last.trace[i].arg = last.req.body.action
       ELSE NoHandlerInvoked /\ last.w.status = 200 /\ last.w.body = Absent

\* C8 amended: the handler is invoked (exactly once, first, with the raw action
\* value) when the body has an action field, has no type field, and a handler
\* is registered; in every other case - also an action under a type field that
\* is not "url_verification" - no handler is invoked and the answer is 200 with
\* an empty body.
C8_ActionDispatchedWithoutType ==
    (/\ OnCards /\ CardSigned /\ last.req.body.json = "object"
     /\ last.req.body.type # Str("url_verification"))
    => IF last.req.body.action # Absent /\ srv.CardCallbackHandler /\ last.req.body.type = Absent
       THEN /\ Cardinality(Calls("CardCallbackHandler")) = 1
            /\ last.trace[1] = [op |-> "CardCallbackHandler", arg |-> last.req.body.action]
       ELSE /\ NoHandlerInvoked
            /\ last.trace = <<[op |-> "WriteHeader", arg |-> 200]>>
            /\ last.w.status = 200 /\ last.w.body = Absent

\* C8's case: an accepted body with an action and no type, a handler registered
C8_Witness ==
    /\ OnCards /\ CardSigned /\ srv.EventVerificationToken # ""
    /\ last.req.body.type = Absent /\ last.req.body.action = Obj("act")
    /\ srv.CardCallbackHandler
    /\ Calls("CardCallbackHandler") = {1}

\* the JSON object the sender meant the event endpoint to see
SentEvent == last.req.body.doc

\* C9 as stated: every JSON object with type "url_verification" and a challenge
\* key, sent to the card or the event endpoint, is answered 200 with the body
\* {"challenge": v}, v the received value, and no handler is invoked.
C9_ChallengeAlwaysEchoed ==
    /\ (/\ OnCards /\ last.req.body.json = "object"
        /\ last.req.body.type = Str("url_verification")
        /\ last.req.body.challenge # Absent)
       => /\ last.w.status = 200
          /\ last.w.body = [challenge |-> last.req.body.challenge]
          /\ NoHandlerInvoked
    /\ (/\ OnEvents /\ SentEvent.json = "object"
        /\ SentEvent.type = Str("url_verification")
        /\ SentEvent.challenge # Absent)
       => /\ last.w.status = 200
          /\ last.w.body = [challenge |-> SentEvent.challenge]
          /\ NoHandlerInvoked

\* C9 amended: every accepted JSON object with type "url_verification" and a
\* challenge key is answered 200, Content-Type application/json, with the body
\* {"challenge": v}, v the received value, and no handler is invoked; accepted
\* at the card endpoint means that the signature matches when a verification
\* token is configured, and at the event endpoint that the body reaches the
\* decoder (in clear without key, decrypting with one), decodes into
\* EventResponse - so the challenge is a JSON string - and carries the
\* configured verification token if there is one.
C9_AcceptedChallengeEchoed ==
    /\ (/\ OnCards /\ CardSigned /\ last.req.body.json = "object"
        /\ last.req.body.type = Str("url_verification")
        /\ last.req.body.challenge # Absent)
       => /\ last.w = [status |-> 200, ctype |-> "application/json",
                       body |-> [challenge |-> last.req.body.challenge]]
          /\ NoHandlerInvoked
    /\ (/\ OnEvents /\ EventReadable /\ EventDecodes /\ EventTokenOK
        /\ Envelope.type = Str("url_verification")
        /\ Envelope.challenge # Absent)
       => /\ last.w = [status |-> 200, ctype |-> "application/json",
                       body |-> [challenge |-> Envelope.challenge]]
          /\ NoHandlerInvoked

\* C9's case: a challenge is echoed by the event endpoint of a server that has
\* a key, a verification token and a handler
C9_Witness ==
    /\ OnEvents /\ EventReadable /\ EventDecodes /\ EventTokenOK
    /\ srv.EventEncrytionKey # "" /\ srv.EventVerificationToken # ""
    /\ srv.EventCallbackHandler
    /\ Envelope.type = Str("url_verification")
    /\ Envelope.challenge = Str("abc")
    /\ last.w.status = 200

ShortOrMisaligned ==
    /\ last.req.body.kind = "encrypted" /\ last.req.body.b64ok
    /\ \/ last.req.body.rawLen < BlockSize
       \/ last.req.body.rawLen = BlockSize
       \/ (last.req.body.rawLen - BlockSize) % BlockSize # 0

\* C11 as stated: with an encryption key configured, an event request whose
\* decoded "encrypt" value has fewer than 16 bytes, or whose remainder after
\* the IV is empty or no multiple of 16, is answered 204 and the event handler
\* is not invoked.
C11_MalformedCiphertextIs204 ==
    (OnEvents /\ srv.EventEncrytionKey # "" /\ ShortOrMisaligned)
    => /\ last.w.status = 204
       /\ NoHandlerInvoked

(***************************************************************************)
(* Part 3: functions of the library applied to one input at a time.  Byte  *)
(* strings are sequences of numbers 0..255.                                *)
(***************************************************************************)
\* the longest plaintext a sender seals
MaxPlain == 17
\* the bytes of plaintexts and IVs are a pattern started at one of these
Seeds == {0, 250}
\* last bytes an arbitrary buffer is given: no pad, the shortest and the
\* longest pad, and bytes beyond a block and beyond the buffer
PadBytes == {0, 1, BlockSize, BlockSize + 1, 2 * BlockSize, 2 * BlockSize + 1, 255}
\* lengths a sealed message is cut down to on its way
CutLens == {0, BlockSize \div 2, BlockSize, BlockSize + BlockSize \div 2}

Plain(n, seed) == [i \in 1..n |-> (seed + i) % 256]
IV(seed) == [i \in 1..BlockSize |-> (seed * i) % 256]

\* a ^ b on bytes
RECURSIVE xorByte(_, _)
xorByte(a, b) ==
    IF a = 0 THEN b
    ELSE IF b = 0 THEN a
    ELSE 2 * xorByte(a \div 2, b \div 2) + ((a + b) % 2)
xorBlock(x, y) == [i \in 1..BlockSize |-> xorByte(x[i], y[i])]

\* sha256.Sum256([]byte(h.EventEncrytionKey)), the AES key: a stand-in that
\* keeps the keys of distinct secrets distinct
Sum256(secret) == IF secret = "k" THEN 41 ELSE 173

\* the AES block permutation under a key and its inverse: a stand-in, a keyed
\* permutation of the 16-byte blocks
encryptBlock(key, b) == [i \in 1..BlockSize |-> (b[i] + key + i) % 256]
decryptBlock(key, b) == [i \in 1..BlockSize |-> (b[i] + 512 - key - i) % 256]

\* CBC encryption, the sender's side: each block is xored with the previous
\* ciphertext block (the IV for the first) and then encrypted
RECURSIVE cbcEncrypt(_, _, _)
cbcEncrypt(key, prev, buf) ==
    IF Len(buf) = 0 THEN <<>>
    ELSE LET c == encryptBlock(key, xorBlock(SubSeq(buf, 1, BlockSize), prev))
         IN  c \o cbcEncrypt(key, c, SubSeq(buf, BlockSize + 1, Len(buf)))

\* a decryption that does not chain the blocks
RECURSIVE cbcDecrypt_NoChain(_, _, _)
cbcDecrypt_NoChain(key, prev, ct) ==
    IF Len(ct) = 0 THEN <<>>
    ELSE xorBlock(decryptBlock(key, SubSeq(ct, 1, BlockSize)), prev)
         \o cbcDecrypt_NoChain(key, prev, SubSeq(ct, BlockSize + 1, Len(ct)))
\* cipher.NewCBCDecrypter(block, iv).CryptBlocks(cipherText, cipherText) on
\* full blocks
RECURSIVE cbcDecrypt(_, _, _)
cbcDecrypt(key, prev, ct) ==
    IF Len(ct) = 0 THEN <<>>
    ELSE LET c == SubSeq(ct, 1, BlockSize)
         IN  xorBlock(decryptBlock(key, c), prev)
             \o cbcDecrypt(key, c, SubSeq(ct, BlockSize + 1, Len(ct)))

\* bufLen := len(cipherText) - int(cipherText[len(cipherText)-1]);
\* body = cipherText[:bufLen]: a negative bufLen panics, nothing else is checked
unpad(buf) ==
    LET bufLen == Len(buf) - buf[Len(buf)]
    IN  IF bufLen < 0 THEN [outcome |-> "panic", body |-> <<>>]
        ELSE [outcome |-> "ok", body |-> SubSeq(buf, 1, bufLen)]

\* handleLarkEvents from the base64-decoded bytes to the body handed to the
\* envelope parser
decryptBody(secret, raw) ==
    CASE Len(raw) < BlockSize -> [outcome |-> "panic", body |-> <<>>]  \* cipherText[:aes.BlockSize]
      [] (Len(raw) - BlockSize) % BlockSize # 0 -> [outcome |-> "panic", body |-> <<>>]  \* CryptBlocks
      [] Len(raw) = BlockSize -> [outcome |-> "panic", body |-> <<>>]  \* cipherText[len(cipherText)-1]
      [] OTHER -> unpad(cbcDecrypt(Sum256(secret), SubSeq(raw, 1, BlockSize),
                                   SubSeq(raw, BlockSize + 1, Len(raw))))

\* the sender's PKCS#7 padding: 1 to 16 bytes, each the number of bytes added
pkcs7Pad(P) ==
    LET pad == BlockSize - (Len(P) % BlockSize)
    IN  P \o [i \in 1..pad |-> pad]
\* the sender's sealing of a buffer: the IV, then the CBC encryption
seal(secret, iv, buf) == iv \o cbcEncrypt(Sum256(secret), iv, buf)
\* the sender's Encrypt(S, P)
Encrypt(secret, iv, P) == seal(secret, iv, pkcs7Pad(P))

\* what arrives base64-encoded under "encrypt": a plaintext sealed by a sender
\* (how "sealed"), a buffer with an arbitrary last byte sealed by someone who
\* holds the secret ("forged"), a sealed plaintext cut short ("cut")
DecryptInputs ==
    {[how |-> "sealed", secret |-> "k", sender |-> k, sent |-> Plain(n, seed),
      raw |-> Encrypt(k, IV(seed), Plain(n, seed))] :
        k \in SenderKeys, n \in 0..MaxPlain, seed \in Seeds}
    \cup
    {[how |-> "forged", secret |-> "k", sender |-> "k", sent |-> <<>>,
      raw |-> seal("k", IV(seed), [Plain(b * BlockSize, seed) EXCEPT ![b * BlockSize] = N])] :
        b \in 1..2, N \in PadBytes, seed \in Seeds}
    \cup
    {[how |-> "cut", secret |-> "k", sender |-> "k", sent |-> Plain(DocLen, seed),
      raw |-> SubSeq(Encrypt("k", IV(seed), Plain(DocLen, seed)), 1, n)] :
        n \in CutLens, seed \in Seeds}

\* an encrypted event arrives and is decrypted
Decrypt ==
    /\ fn.op = "none"
    /\ \E x \in DecryptInputs :
         fn' = [op |-> "decrypt", in |-> x, out |-> decryptBody(x.secret, x.raw)]
    /\ UNCHANGED <<apiVars, srvVars, loop, serve>>

\* values of "msg" in a response envelope
MsgVals == {Absent, Str("ok"), Str("success"), Str("OK"), Str("fail"), Str(""), Num("1")}
\* what client.Do and ioutil.ReadAll give for a request: a transport error, a
\* response whose body cannot be read, or a status and a body; a body is no
\* JSON or a JSON object with a msg and a payload that fits the caller's
\* result structure or does not
HTTPResponses ==
    {[transportErr |-> TRUE, readErr |-> FALSE, status |-> 0, json |-> "malformed",
      msg |-> Absent, fits |-> FALSE]} \cup
    [transportErr : {FALSE}, readErr : {TRUE}, status : {200, 500}, json : {"malformed"},
     msg : {Absent}, fits : {FALSE}] \cup
    [transportErr : {FALSE}, readErr : {FALSE}, status : {200, 500}, json : {"malformed"},
     msg : {Absent}, fits : {FALSE}] \cup
    [transportErr : {FALSE}, readErr : {FALSE}, status : {200, 500}, json : {"object"},
     msg : MsgVals, fits : BOOLEAN]

NoError == <<"nil">>
\* fmt.Errorf("not ok or success returned: %s", apiResp.Msg)
NotOkError(msg) == <<"not ok or success returned: ", msg>>

\* a comparison that ignores case
notOkOrSuccess_IgnoreCase(msg) == msg \notin {"ok", "success", "OK"}
\* apiResp.Msg != "ok" && apiResp.Msg != "success"
notOkOrSuccess(msg) == msg # "ok" /\ msg # "success"

\* API.do after the request is sent: the error returned and what became of
\* the caller's respData ("untouched", or "filled" by json.Unmarshal, which
\* fills what fits even when it reports an error)
do(resp, hasRespData) ==
    CASE resp.transportErr -> [err |-> <<"client.Do">>, respData |-> "untouched"]
      [] resp.readErr -> [err |-> <<"ReadAll">>, respData |-> "untouched"]
      [] resp.json = "malformed" -> [err |-> <<"json">>, respData |-> "untouched"]
      [] resp.msg[1] \notin {"absent", "str", "null"} ->
           [err |-> <<"json">>, respData |-> "untouched"]
      [] notOkOrSuccess(goString(resp.msg)) ->
           [err |-> NotOkError(goString(resp.msg)), respData |-> "untouched"]
      [] ~hasRespData -> [err |-> NoError, respData |-> "untouched"]
      [] OTHER -> [err |-> IF resp.fits THEN NoError ELSE <<"json">>, respData |-> "filled"]

\* API.do is applied to a response
DoResponse ==
    /\ fn.op = "none"
    /\ \E resp \in HTTPResponses, hasRespData \in BOOLEAN :
         fn' = [op |-> "do", in |-> [resp |-> resp, hasRespData |-> hasRespData],
                out |-> do(resp, hasRespData)]
    /\ UNCHANGED <<apiVars, srvVars, loop, serve>>

\* app secrets under study; the last one is the very text the filter writes
AppSecrets == {"s1", "s2", "[filtered]"}
AppIds == {"cli_a", ""}
\* the path of the token endpoint and the path of another operation
Paths == {getAccessTokenPath, "/chat/v4/list"}

\* json.Marshal of a map[string]string with the keys app_id and app_secret:
\* the members in the order of their keys
Marshal(m) == <<<<"app_id", m.app_id>>, <<"app_secret", m.app_secret>>>>

\* getAccessToken: the request body Protected{Original: ..., Filtered: ...}
tokenRequestBody(appId, appSecret) ==
    [kind |-> "Protected",
     Original |-> [app_id |-> appId, app_secret |-> appSecret],
     Filtered |-> [app_id |-> appId, app_secret |-> "[filtered]"]]
\* a request body that is no Protected: the value itself is what is sent
plainBody(appId, appSecret) ==
    [kind |-> "other",
     Original |-> [app_id |-> appId, app_secret |-> appSecret],
     Filtered |-> [app_id |-> appId, app_secret |-> appSecret]]
\* the body NewRequest is called with for a path
bodyFor(path, appId, appSecret) ==
    IF path = getAccessTokenPath THEN tokenRequestBody(appId, appSecret)
    ELSE plainBody(appId, appSecret)

\* a debug closure that marshals what is sent
debugValue_Original(reqBody) == reqBody.Original
\* newRequest: the value the debug closure marshals: v.Filtered of a Protected,
\* else the value sent
debugValue(reqBody) ==
    IF reqBody.kind = "Protected" THEN reqBody.Filtered ELSE reqBody.Original

\* newRequest up to http.NewRequest: the bytes of the request body and the
\* calls of api.Debugger, in order
newRequest(hasDebugger, reqBody) ==
    [body |-> Marshal(reqBody.Original),
     logged |-> IF hasDebugger
                THEN <<<<"request body:", Marshal(debugValue(reqBody))>>>>
                ELSE <<>>]

\* one request is built by each of two APIs that differ in their AppSecret only
BuildRequests ==
    /\ fn.op = "none"
    /\ \E path \in Paths, appId \in AppIds, s1 \in AppSecrets, s2 \in AppSecrets,
          hasDebugger \in BOOLEAN :
         fn' = [op |-> "newRequest",
                in |-> [path |-> path, AppId |-> appId, AppSecret |-> <<s1, s2>>,
                        hasDebugger |-> hasDebugger],
                out |-> <<newRequest(hasDebugger, bodyFor(path, appId, s1)),
                          newRequest(hasDebugger, bodyFor(path, appId, s2))>>]
    /\ UNCHANGED <<apiVars, srvVars, loop, serve>>

\* JSON values besides Str, Num, Obj and Null: booleans and arrays; the
\* members of an Obj are a sequence of <<key, value>> in the order written
Bool(x) == <<"bool", x>>
Arr(x) == <<"arr", x>>
\* a PostLines value: the nil slice, or a slice of lines
Nil == [nil |-> TRUE, lines |-> <<>>]
Lines(x) == [nil |-> FALSE, lines |-> x]

\* the PostTag values under study: every field zero or not
PostTags ==
    [Tag : {"", "text"}, Unescape : BOOLEAN, Text : {"", "Name: "}, Href : {"", "h"},
     UserId : {"", "u"}, ImageKey : {"", "i"}, Width : {0, 300}, Height : {0, 300}]
NoTag == [Tag |-> "", Unescape |-> FALSE, Text |-> "", Href |-> "", UserId |-> "",
          ImageKey |-> "", Width |-> 0, Height |-> 0]
\* the post of ExamplePost
ExamplePost ==
    [zh_cn |-> [Title |-> "post",
                Content |-> Lines(<<<<[NoTag EXCEPT !.Tag = "text", !.Text = "Name: "],
                                       [NoTag EXCEPT !.Tag = "a", !.Text = "Hello",
                                                     !.Href = "https://www.google.com"]>>>>)]]
\* the Post values under study: one or two locales, a title or none, a content
\* that is nil, empty, one line of one tag, or two lines
Posts ==
    {ExamplePost} \cup
    {[zh_cn |-> [Title |-> t, Content |-> c]] :
        t \in {"", "post"},
        c \in {Nil, Lines(<<>>), Lines(<<<<>>>>)} \cup {Lines(<<<<x>>>>) : x \in PostTags}} \cup
    {[en_us |-> [Title |-> "", Content |-> Nil],
      zh_cn |-> [Title |-> "post", Content |-> Lines(<<<<NoTag>>, <<x, NoTag>>>>)]] :
        x \in {t \in PostTags : t.Tag = "text" /\ t.Text = "" /\ t.Href = ""}}

\* encoding/json omitting every field as if none were empty
isEmptyValue_Never(v) == FALSE
\* encoding/json isEmptyValue: false, 0 and "" are empty
isEmptyValue(v) ==
    CASE v[1] = "str" -> v[2] = ""
      [] v[1] = "num" -> v[2] = 0
      [] v[1] = "bool" -> ~v[2]
      [] OTHER -> FALSE

\* a struct field tagged `json:"key,omitempty"`
omitempty(key, v) == IF isEmptyValue(v) THEN <<>> ELSE <<<<key, v>>>>

\* json.Marshal of a PostTag: the fields in the order of their declaration
marshalPostTag(t) ==
    Obj(omitempty("tag", Str(t.Tag)) \o omitempty("un_escape", Bool(t.Unescape))
        \o omitempty("text", Str(t.Text)) \o omitempty("href", Str(t.Href))
        \o omitempty("user_id", Str(t.UserId)) \o omitempty("image_key", Str(t.ImageKey))
        \o omitempty("width", Num(t.Width)) \o omitempty("height", Num(t.Height)))
\* json.Marshal of a PostLine (not nil) and of PostLines: a nil slice is null
marshalPostLine(line) == Arr([i \in 1..Len(line) |-> marshalPostTag(line[i])])
marshalPostLines(c) ==
    IF c.nil THEN Null ELSE Arr([i \in 1..Len(c.lines) |-> marshalPostLine(c.lines[i])])
\* json.Marshal of a PostOfLocale: both fields, whatever their values
marshalPostOfLocale(p) ==
    Obj(<<<<"title", Str(p.Title)>>, <<"content", marshalPostLines(p.Content)>>>>)
\* json.Marshal of a Post, a map: the keys in sorted order
marshalPost(post) ==
    Obj((IF "en_us" \in DOMAIN post
         THEN <<<<"en_us", marshalPostOfLocale(post["en_us"])>>>> ELSE <<>>)
        \o (IF "zh_cn" \in DOMAIN post
            THEN <<<<"zh_cn", marshalPostOfLocale(post["zh_cn"])>>>> ELSE <<>>))

\* a Post is serialized
EncodePost ==
    /\ fn.op = "none"
    /\ \E post \in Posts : fn' = [op |-> "marshalPost", in |-> post, out |-> marshalPost(post)]
    /\ UNCHANGED <<apiVars, srvVars, loop, serve>>

\* the function has returned
Return ==
    /\ fn.op # "none"
    /\ fn' = NoRun
    /\ UNCHANGED <<apiVars, srvVars, loop, serve>>

InitFn ==
    /\ InitAPI
    /\ srv = [EventVerificationToken |-> "", EventEncrytionKey |-> "k",
              CardCallbackHandler |-> FALSE, EventCallbackHandler |-> FALSE,
              GetAccessToken |-> FALSE, Logger |-> TRUE]
    /\ last = NoRequest
    /\ fn = NoRun
    /\ loop = NoLoop
    /\ serve = NotServing

NextFn == Decrypt \/ DoResponse \/ BuildRequests \/ EncodePost \/ Return

\* library functions applied to inputs
SpecFn == InitFn /\ [][NextFn]_vars

(***************************************************************************)
(* Claims about the crypto codec (checked under SpecFn).                   *)
(***************************************************************************)
\* the run decrypted whole blocks: this is the buffer before the unpadding
Decrypted ==
    cbcDecrypt(Sum256(fn.in.secret), SubSeq(fn.in.raw, 1, BlockSize),
               SubSeq(fn.in.raw, BlockSize + 1, Len(fn.in.raw)))
WholeBlocks ==
    /\ fn.op = "decrypt"
    /\ Len(fn.in.raw) > BlockSize /\ Len(fn.in.raw) % BlockSize = 0
PadByte == Decrypted[Len(Decrypted)]

\* C12 as stated: when the decrypted buffer ends in N, the decryption fails
\* whenever N is 0, greater than 16 or greater than the length of the buffer,
\* and otherwise exactly N trailing bytes are stripped.
C12_PadByteValidated ==
    WholeBlocks =>
        IF PadByte = 0 \/ PadByte > BlockSize \/ PadByte > Len(Decrypted)
        THEN fn.out.outcome # "ok"
        ELSE /\ fn.out.outcome = "ok"
             /\ fn.out.body = SubSeq(Decrypted, 1, Len(Decrypted) - PadByte)

\* C13: decrypting Encrypt(S, P) under the same secret S yields exactly P: the
\* body handed to the envelope parser has the length and the content of P.
C13_RoundTrip ==
    (fn.op = "decrypt" /\ fn.in.how = "sealed" /\ fn.in.sender = fn.in.secret)
    => /\ fn.out.outcome = "ok"
       /\ Len(fn.out.body) = Len(fn.in.sent)
       /\ fn.out.body = fn.in.sent

\* C13's case: a plaintext that fills a block exactly, so that a whole block
\* of padding follows it, was sealed under the server's secret and decrypted
C13_Witness ==
    /\ fn.op = "decrypt" /\ fn.in.how = "sealed" /\ fn.in.sender = fn.in.secret
    /\ Len(fn.in.sent) = BlockSize
    /\ Len(fn.in.raw) = 3 * BlockSize
    /\ fn.out.outcome = "ok"

(***************************************************************************)
(* Claims about the outbound pipeline (checked under SpecFn).              *)
(***************************************************************************)
\* the response of the run arrived and its body is an envelope with a string
\* (or no) msg
EnvelopeRead ==
    /\ fn.op = "do"
    /\ ~fn.in.resp.transportErr /\ ~fn.in.resp.readErr
    /\ fn.in.resp.json = "object"
    /\ fn.in.resp.msg[1] \in {"absent", "str"}
EnvelopeMsg == IF fn.in.resp.msg = Absent THEN "" ELSE fn.in.resp.msg[2]

\* C14: a response whose envelope message is not exactly "ok" or "success"
\* makes the call fail with an error that carries the message, whatever the
\* HTTP status; the caller's result structure is written only when the message
\* is "ok" or "success".
C14_NotOkIsError ==
    /\ (EnvelopeRead /\ EnvelopeMsg \notin {"ok", "success"})
       => fn.out.err = <<"not ok or success returned: ", EnvelopeMsg>>
    /\ (fn.op = "do" /\ fn.out.respData # "untouched")
       => EnvelopeRead /\ EnvelopeMsg \in {"ok", "success"}

\* C14's case: a 200 response with the message "OK" and a payload that would
\* fit the result structure the caller passed
C14_Witness ==
    /\ EnvelopeRead /\ fn.in.resp.status = 200 /\ EnvelopeMsg = "OK"
    /\ fn.in.resp.fits /\ fn.in.hasRespData
    /\ fn.out.err = <<"not ok or success returned: ", "OK">>
    /\ fn.out.respData = "untouched"

(***************************************************************************)
(* Claims about the statuses and the methods (checked under SpecServer).   *)
(***************************************************************************)
\* the last request took an error path of the card or of the event endpoint:
\* unreadable body, signature mismatch, malformed JSON, decryption failure,
\* token mismatch
ErrorPath ==
    \/ last.endpoint \in {"cards", "events"} /\ last.req.readErr
    \/ OnCards /\ (~CardSigned \/ last.req.body.json = "malformed")
    \/ OnEvents /\ ~EventReadable
    \/ OnEvents /\ EventReadable /\ (decodeFails(Envelope) \/ ~EventTokenOK)

\* C15 as stated: a status written while a request is served is 200, 204 or
\* 404, never 5xx, and every error path of the card and event endpoints ends
\* with 204.  (Status 0: the handlers wrote none.)
C15_StatusIs200Or204Or404 ==
    last.endpoint # "none"
    => /\ last.w.status # 0 => last.w.status \in {200, 204, 404}
       /\ \A i \in Calls("WriteHeader") : last.trace[i].arg \in {200, 204, 404}
       /\ ErrorPath => last.w.status = 204

\* C18 as stated: a request to the card or event endpoint with a method other
\* than POST never causes a handler to be invoked.
C18_PostOnly ==
    (last.endpoint \in {"cards", "events"} /\ last.method # "POST")
    => NoHandlerInvoked

\* C16: the app secret is not handed to the Debugger in clear: for any two app
\* secrets, what is logged while the token-fetch request is built is the same
\* (the secret appears as "[filtered]"), while each request sent carries the
\* real secret.
C16_SecretFiltered ==
    (fn.op = "newRequest" /\ fn.in.path = getAccessTokenPath)
    => /\ fn.out[1].logged = fn.out[2].logged
       /\ \A i \in 1..2 :
            /\ fn.out[i].body = <<<<"app_id", fn.in.AppId>>, <<"app_secret", fn.in.AppSecret[i]>>>>
            /\ \A j \in DOMAIN fn.out[i].logged :
                 fn.out[i].logged[j][2][2] = <<"app_secret", "[filtered]">>

\* C16's case: two token requests built with different secrets and a Debugger
\* that is set
C16_Witness ==
    /\ fn.op = "newRequest" /\ fn.in.path = getAccessTokenPath
    /\ fn.in.hasDebugger
    /\ fn.in.AppSecret = <<"s1", "s2">>
    /\ Len(fn.out[1].logged) = 1
    /\ fn.out[1].body # fn.out[2].body

\* the keys of PostTag in the order of their declaration
DeclaredKeys == <<"tag", "un_escape", "text", "href", "user_id", "image_key", "width", "height">>
\* the field of tag t that is written under the k-th declared key is not zero
NonZero(t, k) ==
    CASE k = 1 -> t.Tag # ""
      [] k = 2 -> t.Unescape
      [] k = 3 -> t.Text # ""
      [] k = 4 -> t.Href # ""
      [] k = 5 -> t.UserId # ""
      [] k = 6 -> t.ImageKey # ""
      [] k = 7 -> t.Width # 0
      [] k = 8 -> t.Height # 0
\* the place of a key among the declared keys, 0 for any other key
Place(key) == IF \E k \in DOMAIN DeclaredKeys : DeclaredKeys[k] = key
              THEN CHOOSE k \in DOMAIN DeclaredKeys : DeclaredKeys[k] = key
              ELSE 0
\* members o (a sequence of <<key, value>>) are what tag t must serialize to
TagKeysRight(t, o) ==
    /\ \A i \in DOMAIN o : Place(o[i][1]) # 0
    /\ \A i \in DOMAIN o : \A j \in DOMAIN o : i < j => Place(o[i][1]) < Place(o[j][1])
    /\ \A k \in DOMAIN DeclaredKeys :
         NonZero(t, k) <=> \E i \in DOMAIN o : o[i][1] = DeclaredKeys[k]
\* the output for the i-th locale of the post, in the order of writing
LocaleOut(i) == fn.out[2][i][2][2]

\* C17: serializing a Post writes, for every PostTag, exactly the keys of its
\* non-zero fields, in the declared order tag, un_escape, text, href, user_id,
\* image_key, width, height, and no other key; title and content of every
\* locale are always written; the post of ExamplePost gives the documented
\* output.
C17_PostKeys ==
    fn.op = "marshalPost"
    => /\ Len(fn.out[2]) = Cardinality(DOMAIN fn.in)
       /\ \A i \in DOMAIN fn.out[2] :
            LET loc == fn.in[fn.out[2][i][1]]
            IN  /\ Len(LocaleOut(i)) = 2
                /\ LocaleOut(i)[1] = <<"title", <<"str", loc.Title>>>>
                /\ LocaleOut(i)[2][1] = "content"
                /\ ~loc.Content.nil =>
                     \A l \in DOMAIN loc.Content.lines :
                         \A n \in DOMAIN loc.Content.lines[l] :
                             TagKeysRight(loc.Content.lines[l][n],
                                          LocaleOut(i)[2][2][2][l][2][n][2])
       /\ fn.in = ExamplePost =>
            fn.out = <<"obj", <<<<"zh_cn", <<"obj",
                <<<<"title", <<"str", "post">>>>,
                  <<"content", <<"arr", <<<<"arr",
                      <<<<"obj", <<<<"tag", <<"str", "text">>>>, <<"text", <<"str", "Name: ">>>>>>>>,
                        <<"obj", <<<<"tag", <<"str", "a">>>>, <<"text", <<"str", "Hello">>>>,
                                   <<"href", <<"str", "https://www.google.com">>>>>>>>
                      >>>>>>>>>>
                >>>>>>>>>>

\* C17's case: a post with an empty title whose tag has only un_escape, width
\* and height set
C17_Witness ==
    /\ fn.op = "marshalPost"
    /\ DOMAIN fn.in = {"zh_cn"}
    /\ fn.in.zh_cn.Title = ""
    /\ fn.in.zh_cn.Content =
         Lines(<<<<[NoTag EXCEPT !.Unescape = TRUE, !.Width = 300, !.Height = 300]>>>>)
    /\ LocaleOut(1)[2][2][2][1][2][1][2] =
         <<<<"un_escape", <<"bool", TRUE>>>>, <<"width", <<"num", 300>>>>, <<"height", <<"num", 300>>>>>>

(***************************************************************************)
(* Part 4: the goroutine that Serve starts on Server.updateAccessToken.    *)
(* Time is counted in seconds slept; the depth of the recursion, which     *)
(* grows by one call per attempt, is not recorded.                         *)
(***************************************************************************)
\* the largest expire a supplier reports here, besides two hours
MaxExpire == 70
Expires == 0..MaxExpire \cup {7200}
\* time.Sleep(5 * time.Second) in the deferred function
RetrySeconds == 5
\* secs := expire - 60
RefreshAhead == 60
\* if secs < 5 { secs = 5 }
MinSeconds == 5

\* the Server values whose refresh goroutine is under study
LoopServers ==
    [EventVerificationToken : {""}, EventEncrytionKey : {""},
     CardCallbackHandler : {FALSE}, EventCallbackHandler : {FALSE},
     GetAccessToken : BOOLEAN,            \* TRUE: a supplier is configured (non-nil)
     Logger : BOOLEAN]

\* what h.GetAccessToken() may do: return an expire, return an error, panic
Outcomes ==
    [kind : {"ok"}, expire : Expires] \cup [kind : {"error", "panic"}, expire : {0}]
NoOutcome == [kind |-> "none", expire |-> 0]
NoLog == <<"none", 0>>

\* secs := expire - 60; if secs < 5 { secs = 5 }
secsOf(expire) == IF expire - RefreshAhead < MinSeconds THEN MinSeconds ELSE expire - RefreshAhead

\* a deferred function that sleeps and returns
deferredCall_None == "returned"
\* the deferred function ends in h.updateAccessToken()
deferredCall == "enter"

\* Serve up to go h.updateAccessToken(): the mux with its four patterns and
\* the http.Server are built and the refresh goroutine is started
GoUpdateAccessToken ==
    /\ loop.pc = "off" /\ serve.pc = "off"
    /\ loop' = [pc |-> "enter", prev |-> NoOutcome, waited |-> 0, log |-> NoLog]
    /\ serve' = [pc |-> "logger", routes |-> Routes, listening |-> FALSE]
    /\ UNCHANGED <<apiVars, srvVars, fn>>

\* the rest of Serve: if h.Logger != nil { h.Logger.Info("listening", address);
\* h.Logger.Fatal(server.ListenAndServe()) }: with a Logger the listener
\* runs, or cannot be opened, and the error goes to Logger.Fatal (what Fatal
\* does to the process is the Logger's); without one Serve returns
ListenAndServe ==
    /\ serve.pc = "logger"
    /\ IF srv.Logger
       THEN \E opened \in BOOLEAN :
              serve' = [serve EXCEPT !.pc = IF opened THEN "listening" ELSE "fatal",
                                     !.listening = opened]
       ELSE serve' = [serve EXCEPT !.pc = "returned"]
    /\ UNCHANGED <<apiVars, srvVars, fn, loop>>

\* updateAccessToken is entered: without a supplier it returns at once, else
\* it registers the deferred function and goes on to the call
Enter ==
    /\ loop.pc = "enter"
    /\ loop' = [loop EXCEPT !.pc = IF srv.GetAccessToken THEN "call" ELSE "returned"]
    /\ UNCHANGED <<apiVars, srvVars, fn, serve>>

\* expire, err := h.GetAccessToken() and what follows up to the next sleep:
\* an error is logged and the function returns into the deferred function; a
\* panic unwinds into it; a success logs the seconds and goes to sleep
Attempt ==
    /\ loop.pc = "call"
    /\ \E o \in Outcomes :
         loop' = [pc |-> IF o.kind = "ok" THEN "sleep" ELSE "deferred",
                  prev |-> o,
                  waited |-> 0,
                  log |-> CASE ~srv.Logger \/ o.kind = "panic" -> NoLog
                            [] o.kind = "error" -> <<"Error", 0>>
                            [] OTHER -> <<"Info: update access token in", secsOf(o.expire)>>]
    /\ UNCHANGED <<apiVars, srvVars, fn, serve>>

\* time.Sleep(time.Duration(secs) * time.Second), then the function returns
\* into the deferred function
SleepSecs ==
    /\ loop.pc = "sleep"
    /\ loop' = [loop EXCEPT !.pc = "deferred", !.waited = @ + secsOf(loop.prev.expire)]
    /\ UNCHANGED <<apiVars, srvVars, fn, serve>>

\* the deferred function: time.Sleep(5 * time.Second); h.updateAccessToken()
DeferredSleep ==
    /\ loop.pc = "deferred"
    /\ loop' = [loop EXCEPT !.pc = deferredCall, !.waited = @ + RetrySeconds]
    /\ UNCHANGED <<apiVars, srvVars, fn, serve>>

InitLoop ==
    /\ InitAPI
    /\ srv \in LoopServers
    /\ last = NoRequest
    /\ fn = NoRun
    /\ loop = NoLoop
    /\ serve = NotServing

NextLoop ==
    GoUpdateAccessToken \/ ListenAndServe \/ Enter \/ Attempt \/ SleepSecs \/ DeferredSleep

\* the refresh goroutine of a Server
SpecLoop == InitLoop /\ [][NextLoop]_vars
\* ... which the scheduler keeps running: a sleep ends, the supplier comes back
FairSpecLoop == InitLoop /\ [][NextLoop]_vars /\ WF_vars(NextLoop)

(***************************************************************************)
(* Claims about the refresh loop (checked under SpecLoop, FairSpecLoop).   *)
(***************************************************************************)
\* an attempt has been made and the next has not yet begun
AfterAttempt == loop.pc \in {"sleep", "deferred", "enter"} /\ loop.prev.kind # "none"
\* the goroutine is about to call the supplier
AttemptStarts == loop.pc = "call"

C20_DelayIsSecs ==
    (AttemptStarts /\ loop.prev.kind # "none")
    => loop.waited = IF loop.prev.kind = "ok"
                     THEN (IF loop.prev.expire - 60 > 5 THEN loop.prev.expire - 60 ELSE 5)
                     ELSE 5

(***************************************************************************)
(* Claims about the mutex and the cached token (checked under Spec).       *)
(***************************************************************************)
\* goroutine c is inside getAccessToken, past Lock()
InsideGetAccessToken(c) == pc[c] \in {"check", "relock", "inflight", "storing"}

\* C21: the token request never asks for a token itself: a goroutine inside
\* getAccessToken never comes to Lock() again, so it can always go on (it
\* waits for no lock, least of all its own), and the mutex is held by exactly
\* the goroutine inside getAccessToken: it is released on every exit, with
\* the cached token, on a failed fetch and on a stored one.
C21_FetchDoesNotReenter ==
    /\ \A c \in Callers : pc[c] # "relock"
    /\ \A c \in Callers : mutex = c <=> InsideGetAccessToken(c)
    /\ \A c \in Callers :
         InsideGetAccessToken(c) => ENABLED (CheckExpired(c) \/ FetchReturn(c) \/ StoreEnd(c))

\* C21's case: one call has left getAccessToken with the error of its fetch,
\* the other has since taken the mutex and sent a token request of its own
C21_Witness ==
    \E c \in Callers : \E d \in Callers \ {c} :
        /\ call[c].how = "failed" /\ pc[c] = "done"
        /\ mutex = d /\ pc[d] = "inflight"

\* C22 as stated: the cached token is written only by a goroutine that holds
\* the mutex, and no call reads it while another is writing it: no call is at
\* its read of api.accessToken while another is at the assignment, and no
\* Authorization header carries a torn value.
C22_NoReadDuringWrite ==
    /\ \A d \in Callers : pc[d] = "storing" => mutex = d
    /\ \A c \in Callers : \A d \in Callers \ {c} : ~(pc[c] = "attach" /\ pc[d] = "storing")
    /\ \A c \in Callers : call[c].attached # Torn

(***************************************************************************)
(* Claims about the response and about Serve.                              *)
(***************************************************************************)
\* C23 as stated: for every request to the card or event endpoint the status
\* is written at most once, and once 204 has been written nothing more is
\* written to the response and no handler is invoked.
C23_OneResponse ==
    last.endpoint \in {"cards", "events"}
    => /\ Cardinality(Calls("WriteHeader")) <= 1
       /\ \A i \in Calls("WriteHeader") :
            last.trace[i].arg = 204 => i = Len(last.trace)

\* C24 as stated: whether or not a Logger is set, once Serve has been called
\* the listener comes to run with the four routes installed: Serve does not
\* return with no listener running.  (A listener that cannot be opened is no
\* matter of the configuration and is left aside.)
C24_ServeListens ==
    serve.pc = "returned" => (serve.listening /\ serve.routes = Routes)

====
